---- MODULE Spec2Model ----
(***************************************************************************)
(* Register-requirement builders of the linear-scan allocator for the ARM  *)
(* and ARM64 targets (src/src/coreclr/jit/lsraarmarch.cpp).                *)
(*                                                                         *)
(* A LinearScan instance is modelled by the cross-call placement state     *)
(* (placedArgRegs, numPlacedArgLocals) and by the RefPositions the most    *)
(* recent builder invocation emitted, in emission order.  Each builder is  *)
(* one action; its node is drawn from a bounded set of node shapes.        *)
(***************************************************************************)
EXTENDS Integers, Sequences, FiniteSets

VARIABLES
    target,             \* "ARM" or "ARM64": the TARGET_ARM / TARGET_ARM64 build
    placedArgRegs,      \* LinearScan::placedArgRegs, a set of register numbers
    numPlacedArgLocals, \* LinearScan::numPlacedArgLocals
    op,                 \* the builder that ran last ("" before the first)
    node,               \* the node it was given
    refs,               \* the RefPositions it emitted, in order
    srcCount,           \* the value it returned
    aborted,            \* TRUE once a builder hit unreached()
    boundSinceCall,     \* history: registers bound by field-list uses of
                        \* BuildPutArgSplit since the last BuildCall completed
    clearedRegs,        \* history: the placed registers and the count of
    clearedLocals       \* locals the last invocation found and discarded

vars == <<target, placedArgRegs, numPlacedArgLocals, op, node, refs, srcCount,
          aborted, boundSinceCall, clearedRegs, clearedLocals>>

-----------------------------------------------------------------------------
(* Bounds of the model.                                                    *)

MaxCallArgs == 1        \* late arguments of a call
MaxRetRegs == 3         \* registers of a multi-register return
MaxFields == 2          \* fields of a GT_FIELD_LIST
MaxNumRegs == 2         \* gtNumRegs of a GT_PUTARG_SPLIT
MaxArgRegBase == 1      \* base register number of a GT_PUTARG_SPLIT
MaxBlkSize == 33        \* byte size of a block store
MaxLocals == 1          \* pass-through locals recorded by BuildPutArgReg

-----------------------------------------------------------------------------
(* Register sets of the two targets.                                       *)

Targets == {"ARM", "ARM64"}

REG_LR == IF target = "ARM" THEN 14 ELSE 30
SRBM_LR == {REG_LR}
REG_GSCOOKIE_TMP_0 == IF target = "ARM" THEN 12 ELSE 16
REG_GSCOOKIE_TMP_1 == IF target = "ARM" THEN 14 ELSE 17
REG_WRITE_BARRIER_DST_BYREF == IF target = "ARM" THEN 1 ELSE 14
REG_WRITE_BARRIER_SRC_BYREF == IF target = "ARM" THEN 0 ELSE 13
RBM_WRITE_BARRIER_DST_BYREF == {REG_WRITE_BARRIER_DST_BYREF}
RBM_WRITE_BARRIER_SRC_BYREF == {REG_WRITE_BARRIER_SRC_BYREF}
RBM_INT_CALLEE_TRASH ==
    IF target = "ARM" THEN (0 .. 3) \cup {12, 14} ELSE (0 .. 17) \cup {30}
RBM_INT_CALLEE_SAVED == IF target = "ARM" THEN 4 .. 10 ELSE 19 .. 28
RBM_ALLINT == RBM_INT_CALLEE_SAVED \cup RBM_INT_CALLEE_TRASH
RBM_ALLFLOAT == IF target = "ARM" THEN 16 .. 47 ELSE 32 .. 63
RBM_FLT_CALLEE_TRASH == IF target = "ARM" THEN 16 .. 31 ELSE (32 .. 39) \cup (48 .. 63)
RBM_CALLEE_TRASH == RBM_INT_CALLEE_TRASH \cup RBM_FLT_CALLEE_TRASH
RBM_INTRET == {0}
RBM_LNGRET == IF target = "ARM" THEN {0, 1} ELSE {0}
RBM_FLOATRET == IF target = "ARM" THEN {16} ELSE {32}
RBM_PINVOKE_TCB == {5}
RBM_ASYNC_CONTINUATION_RET == {2}
RBM_SWIFT_ERROR == {21}
RBM_NONE == {}

availableIntRegs == RBM_ALLINT
availableFloatRegs == RBM_ALLFLOAT
allRegsInt == availableIntRegs
internalFloatRegCandidates == availableFloatRegs

REGSIZE_BYTES == IF target = "ARM" THEN 4 ELSE 8
FP_REGSIZE_BYTES == 16

genSingleTypeRegMask(r) == {r}

-----------------------------------------------------------------------------
(* The requirement emitter.  A build in progress is a record               *)
(*   [refs, internals, delayFree, placed, locals, aborted]                 *)
(* threaded through the statements of a builder in source order.           *)

Ref(kind, what, cands) == [kind |-> kind, what |-> what, cands |-> cands]

NewBuild ==
    [refs |-> <<>>, internals |-> <<>>, delayFree |-> FALSE, placed |-> placedArgRegs,
     locals |-> numPlacedArgLocals, aborted |-> FALSE]

Emit(b, r) == [b EXCEPT !.refs = Append(@, r)]

BuildUse(b, what, cands) == Emit(b, Ref("Use", what, cands))

BuildDef(b, cands) == Emit(b, Ref("Def", "node", cands))

RECURSIVE BuildDefs(_, _, _)
BuildDefs(b, dstCount, cands) ==
    IF dstCount = 0 THEN b ELSE BuildDefs(BuildDef(b, cands), dstCount - 1, cands)

\* the kill set is recorded at the node; an empty set invalidates no register
BuildKills(b, killMask) == Emit(b, Ref("Kill", "node", killMask))

BuildDefWithKills(b, dstCandidates, killMask) ==
    BuildDef(BuildKills(b, killMask), dstCandidates)

\* def i of a node gets the i-th lowest candidate when there is one for each
RECURSIVE BuildDefsEach(_, _, _)
BuildDefsEach(b, dstCount, cands) ==
    IF dstCount = 0 THEN b
    ELSE LET lowest == CHOOSE r \in cands : \A q \in cands : r <= q
         IN  BuildDefsEach(BuildDef(b, {lowest}), dstCount - 1, cands \ {lowest})

BuildNodeDefs(b, dstCount, cands) ==
    IF Cardinality(cands) = dstCount THEN BuildDefsEach(b, dstCount, cands)
    ELSE BuildDefs(b, dstCount, cands)

BuildCallDefsWithKills(b, dstCount, dstCandidates, killMask) ==
    BuildNodeDefs(BuildKills(b, killMask), dstCount, dstCandidates)

newRefPositionFixedReg(b, reg) == Emit(b, Ref("FixedReg", "node", {reg}))

\* why names the statement that reserves the register
buildInternalIntRegisterDefForNode(b, cands, why) ==
    LET r == Ref("InternalDef", why, IF cands = RBM_NONE THEN allRegsInt ELSE cands)
    IN  [b EXCEPT !.refs = Append(@, r), !.internals = Append(@, [r EXCEPT !.kind = "InternalInt"])]

buildInternalFloatRegisterDefForNode(b, cands, why) ==
    LET r == Ref("InternalDef", why, IF cands = RBM_NONE THEN availableFloatRegs ELSE cands)
    IN  [b EXCEPT !.refs = Append(@, r), !.internals = Append(@, [r EXCEPT !.kind = "InternalFloat"])]

RECURSIVE Repeat(_, _, _, _)
Repeat(b, n, isFloat, why) ==
    IF n = 0 THEN b
    ELSE Repeat(IF isFloat
                THEN buildInternalFloatRegisterDefForNode(b, internalFloatRegCandidates, why)
                ELSE buildInternalIntRegisterDefForNode(b, RBM_NONE, why),
                n - 1, isFloat, why)

\* setInternalRegsDelayFree marks the uses delay-free
buildInternalRegisterUses(b) ==
    [b EXCEPT !.refs = @ \o [i \in 1 .. Len(b.internals) |->
        Ref(IF b.delayFree THEN "InternalUseDelayFree" ELSE "InternalUse",
            b.internals[i].what, b.internals[i].cands)]]

MarkAsyncContinuationBusyForCall(b) == Emit(b, Ref("Busy", "async", RBM_ASYNC_CONTINUATION_RET))

MarkSwiftErrorBusyForCall(b) == Emit(b, Ref("Busy", "swiftError", RBM_SWIFT_ERROR))

\* unreached(): the build of the node is abandoned
Unreached(b) == [b EXCEPT !.aborted = TRUE]

-----------------------------------------------------------------------------
(* Operand shapes and the shared use builders.                             *)
(* An operand is [contained, oper, hasBase, hasIndex, offset]; oper is     *)
(* "GT_LEA", "GT_LCL_ADDR" or "OTHER" (a value computed into a register).  *)

Operand(contained, oper, hasBase, hasIndex, offset) ==
    [contained |-> contained, oper |-> oper, hasBase |-> hasBase,
     hasIndex |-> hasIndex, offset |-> offset]

RegOperand == Operand(FALSE, "OTHER", FALSE, FALSE, 0)
NoOperand == Operand(TRUE, "NULL", FALSE, FALSE, 0)
CnsOperand == Operand(TRUE, "GT_CNS_INT", FALSE, FALSE, 0)
LongOperand == Operand(TRUE, "GT_LONG", FALSE, FALSE, 0)
LclAddrOperand == Operand(TRUE, "GT_LCL_ADDR", FALSE, FALSE, 0)
\* a GT_LCL_ADDR that is not contained: its value is computed into a register
LclAddrRegOperand == Operand(FALSE, "GT_LCL_ADDR", FALSE, FALSE, 0)
LeaOperands(offsets) ==
    {Operand(TRUE, "GT_LEA", TRUE, ix, off) : ix \in BOOLEAN, off \in offsets}

\* [b, n]: the build and the number of uses emitted
BuildAddrUses(b, addr, cands, what) ==
    IF ~addr.contained THEN [b |-> BuildUse(b, what, cands), n |-> 1]
    ELSE IF addr.oper # "GT_LEA" THEN [b |-> b, n |-> 0]
    ELSE LET b1 == IF addr.hasBase THEN BuildUse(b, what \o ".base", cands) ELSE b
             b2 == IF addr.hasIndex THEN BuildUse(b1, what \o ".index", RBM_NONE) ELSE b1
         IN  [b |-> b2, n |-> (IF addr.hasBase THEN 1 ELSE 0) + (IF addr.hasIndex THEN 1 ELSE 0)]

\* a contained GT_LONG is consumed through its two halves
BuildOperandUses(b, operand, cands, what) ==
    IF ~operand.contained THEN [b |-> BuildUse(b, what, cands), n |-> 1]
    ELSE IF operand.oper = "GT_LONG"
    THEN [b |-> BuildUse(BuildUse(b, what \o ".lo", cands), what \o ".hi", cands), n |-> 2]
    ELSE BuildAddrUses(b, operand, cands, what)

BuildIndirUses(b, indirTree) == BuildAddrUses(b, indirTree.addr, RBM_NONE, "addr")

-----------------------------------------------------------------------------
(* BuildIndir                                                              *)

emitTypeSize(type) ==
    CASE type = "TYP_UBYTE" -> 1
      [] type = "TYP_INT" -> 4
      [] type = "TYP_FLOAT" -> 4
      [] type = "TYP_LONG" -> 8
      [] type = "TYP_DOUBLE" -> 8
      [] OTHER -> 16

Abs(x) == IF x < 0 THEN -x ELSE x

\* emitter::emitIns_valid_imm_for_ldst_offset of the two targets
emitIns_valid_imm_for_ldst_offset(imm, size) ==
    IF target = "ARM"
    THEN (imm >= 0 /\ imm <= 4095) \/ Abs(imm) <= 255
    ELSE \/ (imm >= -256 /\ imm <= 255)
         \/ (imm >= 0 /\ imm % size = 0 /\ imm \div size <= 4095)

\* TARGET_ARM: integer staging registers of an unaligned floating access
IndirUnalignedInternalCount(indirTree) ==
    IF target = "ARM" /\ indirTree.unaligned
    THEN LET type == IF indirTree.oper = "GT_STOREIND" THEN indirTree.dataType
                     ELSE IF indirTree.oper = "GT_IND" THEN indirTree.type
                     ELSE "TYP_UNDEF"
         IN  IF type = "TYP_FLOAT" THEN 1 ELSE IF type = "TYP_DOUBLE" THEN 2 ELSE 0
    ELSE 0

\* mutant: the two conditions are tested one after the other, not as else-if
IndirAddrInternalCount_Both(indirTree) ==
    LET addr == indirTree.addr
    IN  IF addr.contained /\ addr.oper = "GT_LEA"
        THEN (IF addr.hasIndex /\ addr.offset # 0 THEN 1 ELSE 0)
             + (IF ~emitIns_valid_imm_for_ldst_offset(addr.offset, emitTypeSize(indirTree.type))
                THEN 1 ELSE 0)
        ELSE 0

\* the internal registers the shape of the address asks for
IndirAddrInternalCount(indirTree) ==
    LET addr == indirTree.addr
    IN  IF addr.contained /\ addr.oper = "GT_LEA"
        THEN IF addr.hasIndex /\ addr.offset # 0 THEN 1
             ELSE IF ~emitIns_valid_imm_for_ldst_offset(addr.offset, emitTypeSize(indirTree.type))
                  THEN 1 ELSE 0
        ELSE 0

\* FEATURE_SIMD is a feature of the ARM64 build
IndirSimd12InternalCount(indirTree) ==
    IF target = "ARM64" /\ indirTree.type = "TYP_SIMD12" THEN 1 ELSE 0

\* mutant: the internal registers are used before the address
BuildIndirRefs_InternalsFirst(b0, indirTree) ==
    LET b1 == Repeat(b0, IndirUnalignedInternalCount(indirTree), FALSE, "unaligned")
        b2 == Repeat(b1, IndirAddrInternalCount(indirTree), FALSE, "addrMode")
        b3 == Repeat(b2, IndirSimd12InternalCount(indirTree), FALSE, "simd12")
        b4 == buildInternalRegisterUses(b3)
        u  == BuildIndirUses(b4, indirTree)
        b5 == IF indirTree.oper \notin {"GT_STOREIND", "GT_NULLCHECK"}
              THEN BuildDef(u.b, RBM_NONE) ELSE u.b
    IN  [b |-> b5, n |-> u.n]

BuildIndirRefs(b0, indirTree) ==
    LET b1 == Repeat(b0, IndirUnalignedInternalCount(indirTree), FALSE, "unaligned")
        b2 == Repeat(b1, IndirAddrInternalCount(indirTree), FALSE, "addrMode")
        b3 == Repeat(b2, IndirSimd12InternalCount(indirTree), FALSE, "simd12")
        u  == BuildIndirUses(b3, indirTree)
        b4 == buildInternalRegisterUses(u.b)
        b5 == IF indirTree.oper \notin {"GT_STOREIND", "GT_NULLCHECK"}
              THEN BuildDef(b4, RBM_NONE) ELSE b4
    IN  [b |-> b5, n |-> u.n]

IndirOffsets == {0, 4, 257, 4096, 16384, -255, -257}

IndirAddrs == {RegOperand, LclAddrOperand} \cup LeaOperands(IndirOffsets)

\* dataType is the type of the value a GT_STOREIND stores
IndirNode(oper, type, dataType, unaligned, addr) ==
    [oper |-> oper, type |-> type, dataType |-> dataType, unaligned |-> unaligned, addr |-> addr]

IndirDataTypes(oper, type) ==
    IF oper = "GT_STOREIND" THEN {type, "TYP_INT", "TYP_FLOAT", "TYP_DOUBLE"} ELSE {"TYP_UNDEF"}

IndirNodes ==
    {IndirNode(o, t, IF o = "GT_STOREIND" THEN t ELSE "TYP_UNDEF", FALSE, a) :
        o \in {"GT_IND", "GT_STOREIND", "GT_NULLCHECK"},
        t \in {"TYP_INT", "TYP_DOUBLE"}, a \in IndirAddrs}
    \cup
    UNION {{IndirNode(o, t, dt, ua, RegOperand) : dt \in IndirDataTypes(o, t), ua \in BOOLEAN} :
              o \in {"GT_IND", "GT_STOREIND", "GT_NULLCHECK"},
              t \in {"TYP_UBYTE", "TYP_INT", "TYP_FLOAT", "TYP_DOUBLE", "TYP_SIMD12"}}

-----------------------------------------------------------------------------
(* BuildCall                                                               *)
(* A call is [retType, retRegCount, callType, hasControlExpr, r2rRelIndir, *)
(* fastTail, needsNullCheck, isAsync, compIsAsync, swiftError,             *)
(* tlsIconHandle, initPInvokeFrame, gsCookie, args].                       *)

HasMultiRegRetVal(call) ==
    call.retType = "TYP_STRUCT" \/ (target = "ARM" /\ call.retType = "TYP_LONG")

GetReturnRegCount(call) == IF call.retType = "TYP_STRUCT" THEN call.retRegCount ELSE 2

GetABIReturnRegs(call) == 0 .. (GetReturnRegCount(call) - 1)

getKillSetForCall(call) == RBM_CALLEE_TRASH

\* mutant: every value is taken to come back in one register
CallDstCount_Single(call) == IF call.retType # "TYP_VOID" THEN 1 ELSE 0

CallDstCount(call) ==
    IF call.retType # "TYP_VOID"
    THEN IF HasMultiRegRetVal(call) THEN GetReturnRegCount(call) ELSE 1
    ELSE 0

\* ctrlExpr != nullptr after the CT_INDIRECT substitution
CallHasCtrlExpr(call) == call.hasControlExpr \/ call.callType = "CT_INDIRECT"

\* mutant: the cookie temporaries stay among the candidates
CallFastTailCtrlCandidates_Cookie(call) == (allRegsInt \cap RBM_INT_CALLEE_TRASH) \ SRBM_LR

CallFastTailCtrlCandidates(call) ==
    LET c == (allRegsInt \cap RBM_INT_CALLEE_TRASH) \ SRBM_LR
    IN  IF call.gsCookie
        THEN c \ (genSingleTypeRegMask(REG_GSCOOKIE_TMP_0) \cup genSingleTypeRegMask(REG_GSCOOKIE_TMP_1))
        ELSE c

CallCtrlExprCandidates(call) ==
    IF CallHasCtrlExpr(call) /\ call.fastTail THEN CallFastTailCtrlCandidates(call) ELSE RBM_NONE

\* mutant: the 32-bit target skips the register as the 64-bit target does
CallTargetInternal_SkipOnArm(b, call) ==
    IF CallHasCtrlExpr(call) THEN b
    ELSE IF call.r2rRelIndir
    THEN IF call.fastTail
         THEN buildInternalIntRegisterDefForNode(b, allRegsInt \cap RBM_INT_CALLEE_TRASH, "target")
         ELSE b
    ELSE IF target = "ARM" THEN buildInternalIntRegisterDefForNode(b, RBM_NONE, "target") ELSE b

\* the staging register of the call target when there is no control expression
CallTargetInternal(b, call) ==
    IF CallHasCtrlExpr(call) THEN b
    ELSE IF call.r2rRelIndir
    THEN IF call.fastTail
         THEN buildInternalIntRegisterDefForNode(b, allRegsInt \cap RBM_INT_CALLEE_TRASH, "target")
         ELSE IF target = "ARM" THEN buildInternalIntRegisterDefForNode(b, RBM_NONE, "target") ELSE b
    ELSE IF target = "ARM" THEN buildInternalIntRegisterDefForNode(b, RBM_NONE, "target") ELSE b

CallNullCheckInternal(b, call) ==
    IF target = "ARM" /\ call.needsNullCheck
    THEN buildInternalIntRegisterDefForNode(b, IF call.fastTail THEN SRBM_LR ELSE RBM_NONE, "nullCheck")
    ELSE b

CallSingleDstCandidates(call) ==
    IF target = "ARM" /\ call.initPInvokeFrame THEN RBM_PINVOKE_TCB
    ELSE IF ~HasMultiRegRetVal(call)
    THEN IF call.retType \in {"TYP_FLOAT", "TYP_DOUBLE"} THEN RBM_FLOATRET
         ELSE IF call.retType = "TYP_LONG" THEN RBM_LNGRET
         ELSE RBM_INTRET
    ELSE RBM_NONE

\* the uses of one late argument: [b, n]
RECURSIVE BuildArgUses(_, _, _, _)
BuildArgUses(b, arg, i, n) ==
    IF i = n THEN b
    ELSE BuildArgUses(BuildUse(b, "arg", genSingleTypeRegMask(arg.reg + i)), arg, i + 1, n)

RECURSIVE BuildCallArgUsesFrom(_, _, _)
BuildCallArgUsesFrom(b, args, k) ==
    IF k > Len(args) THEN [b |-> b, n |-> 0]
    ELSE LET arg == args[k]
             uses == IF arg.kind = "GT_PUTARG_STK" THEN 0 ELSE arg.n
             rest == BuildCallArgUsesFrom(BuildArgUses(b, arg, 0, uses), args, k + 1)
         IN  [b |-> rest.b, n |-> uses + rest.n]

BuildCallArgUses(b, call) == BuildCallArgUsesFrom(b, call.args, 1)

CallIsTlsGetAddr(call) ==
    target = "ARM64" /\ call.tlsIconHandle /\ Len(call.args) = 0

\* mutant: the control expression's use is emitted and not counted
CallCtrlExprUse_NotCounted(b, call) ==
    IF CallHasCtrlExpr(call)
    THEN [b |-> BuildUse(b, "ctrlExpr", CallCtrlExprCandidates(call)), n |-> 0]
    ELSE [b |-> b, n |-> 0]

\* the control expression's use, with the fixed registers of the TLS sequence
CallCtrlExprUse(b, call) ==
    IF CallHasCtrlExpr(call)
    THEN IF CallIsTlsGetAddr(call)
         THEN [b |-> BuildUse(newRefPositionFixedReg(newRefPositionFixedReg(b, 0), 1),
                              "ctrlExpr", genSingleTypeRegMask(2)),
               n |-> 1]
         ELSE [b |-> BuildUse(b, "ctrlExpr", CallCtrlExprCandidates(call)), n |-> 1]
    ELSE [b |-> b, n |-> 0]

\* mutant: the method being compiled is not asked whether it is async
CallAsyncBusy_AnyMethod(b, call) ==
    IF call.isAsync /\ ~call.fastTail
    THEN MarkAsyncContinuationBusyForCall(b) ELSE b

CallAsyncBusy(b, call) ==
    IF call.isAsync /\ call.compIsAsync /\ ~call.fastTail
    THEN MarkAsyncContinuationBusyForCall(b) ELSE b

CallDefsAndKills(b, call) ==
    LET dstCount == CallDstCount(call)
        killMask == getKillSetForCall(call)
    IN  IF dstCount > 0
        THEN IF HasMultiRegRetVal(call)
             THEN BuildCallDefsWithKills(b, dstCount, GetABIReturnRegs(call), killMask)
             ELSE BuildDefWithKills(b, CallSingleDstCandidates(call), killMask)
        ELSE BuildKills(b, killMask)

CallSwiftErrorBusy(b, call) ==
    IF target = "ARM64" /\ call.swiftError THEN MarkSwiftErrorBusyForCall(b) ELSE b

\* mutant: the count of placed locals is left as it was
ClearPlacedArgs_KeepLocals(b) == [b EXCEPT !.placed = RBM_NONE]

\* "No args are placed in registers anymore."
ClearPlacedArgs(b) == [b EXCEPT !.placed = RBM_NONE, !.locals = 0]

\* mutant: the internal registers are used before the control expression
BuildCallRefs_InternalsFirst(b0, call) ==
    LET b1 == CallTargetInternal(b0, call)
        b2 == CallNullCheckInternal(b1, call)
        a  == BuildCallArgUses(b2, call)
        b3 == buildInternalRegisterUses(a.b)
        c  == CallCtrlExprUse(b3, call)
        b4 == CallAsyncBusy(c.b, call)
        b5 == CallDefsAndKills(b4, call)
        b6 == CallSwiftErrorBusy(b5, call)
    IN  [b |-> ClearPlacedArgs(b6), n |-> a.n + c.n]

BuildCallRefs(b0, call) ==
    LET b1 == CallTargetInternal(b0, call)
        b2 == CallNullCheckInternal(b1, call)
        a  == BuildCallArgUses(b2, call)
        c  == CallCtrlExprUse(a.b, call)
        b3 == buildInternalRegisterUses(c.b)
        b4 == CallAsyncBusy(b3, call)
        b5 == CallDefsAndKills(b4, call)
        b6 == CallSwiftErrorBusy(b5, call)
    IN  [b |-> ClearPlacedArgs(b6), n |-> a.n + c.n]

\* a late argument is [kind, reg, n]: its first register and its register count
CallArgs ==
    {[kind |-> "GT_PUTARG_REG", reg |-> 0, n |-> 1], [kind |-> "GT_PUTARG_STK", reg |-> 0, n |-> 1],
     [kind |-> "GT_PUTARG_SPLIT", reg |-> 2, n |-> 2], [kind |-> "GT_FIELD_LIST", reg |-> 0, n |-> 2]}

RECURSIVE SeqsUpTo(_, _)
SeqsUpTo(S, n) ==
    IF n = 0 THEN {<<>>}
    ELSE LET shorter == SeqsUpTo(S, n - 1)
         IN  shorter \cup {Append(s, x) : s \in {t \in shorter : Len(t) = n - 1}, x \in S}

CallRetShapes ==
    {[retType |-> t, retRegCount |-> 0] : t \in {"TYP_VOID", "TYP_INT", "TYP_LONG", "TYP_FLOAT"}}
    \cup {[retType |-> "TYP_STRUCT", retRegCount |-> k] : k \in 2 .. MaxRetRegs}

\* callType, hasControlExpr, r2rRelIndir
CallTargetShapes ==
    {<<"CT_USER_FUNC", TRUE, FALSE>>, <<"CT_INDIRECT", FALSE, FALSE>>,
     <<"CT_USER_FUNC", FALSE, FALSE>>, <<"CT_USER_FUNC", FALSE, TRUE>>}

CallSpecialShapes == {"none", "swiftError", "tlsIconHandle", "initPInvokeFrame"}

\* isAsync, compIsAsync
CallAsyncShapes == {<<FALSE, FALSE>>, <<TRUE, FALSE>>, <<TRUE, TRUE>>}

Call(ret, tgt, fastTail, gs, nullCheck, async, special, args) ==
    [retType |-> ret.retType, retRegCount |-> ret.retRegCount,
     callType |-> tgt[1], hasControlExpr |-> tgt[2], r2rRelIndir |-> tgt[3],
     fastTail |-> fastTail, gsCookie |-> gs, needsNullCheck |-> nullCheck,
     isAsync |-> async[1], compIsAsync |-> async[2],
     swiftError |-> special = "swiftError",
     tlsIconHandle |-> special = "tlsIconHandle",
     initPInvokeFrame |-> special = "initPInvokeFrame",
     args |-> args]

CallNodes ==
    {Call(ret, tgt, ft, gs, nc, as, sp, args) :
        ret \in CallRetShapes, tgt \in CallTargetShapes, ft \in BOOLEAN, gs \in BOOLEAN,
        nc \in BOOLEAN, as \in CallAsyncShapes, sp \in CallSpecialShapes,
        args \in SeqsUpTo(CallArgs, MaxCallArgs)}

\* the calls of the multi-builder specification
CallNodesCore ==
    {n \in CallNodes :
        /\ n.retType \in {"TYP_VOID", "TYP_STRUCT"}
        /\ n.retRegCount \in {0, 2}
        /\ ~n.needsNullCheck /\ ~n.isAsync /\ ~n.swiftError /\ ~n.initPInvokeFrame
        /\ ~n.tlsIconHandle
        /\ n.gsCookie = n.fastTail
        /\ n.args = <<>>}

\* the indirections of the multi-builder specification
IndirNodesCore ==
    {n \in IndirNodes :
        n.oper = "GT_IND" /\ n.addr.offset \in {0, 4096} /\ n.type = "TYP_INT" /\ ~n.unaligned}

-----------------------------------------------------------------------------
(* BuildPutArgStk                                                          *)
(* A field of a GT_FIELD_LIST is [type, multiRegOp, regCount].  A stack    *)
(* argument is [srcType, srcOper, fields, addr, appleSimd12].              *)

Field(type, multiRegOp, regCount) ==
    [type |-> type, multiRegOp |-> multiRegOp, regCount |-> regCount]

\* one field of a stack-passed field list (FEATURE_SIMD: the ARM64 build)
PutArgStkFieldUse(b, field) ==
    LET b1 == BuildUse(b, "field", RBM_NONE)
    IN  IF target = "ARM64" /\ field.type = "TYP_SIMD12"
        THEN buildInternalIntRegisterDefForNode(b1, RBM_NONE, "simd12") ELSE b1

RECURSIVE PutArgStkFieldUses(_, _, _)
PutArgStkFieldUses(b, fields, k) ==
    IF k > Len(fields) THEN [b |-> b, n |-> 0]
    ELSE LET rest == PutArgStkFieldUses(PutArgStkFieldUse(b, fields[k]), fields, k + 1)
         IN  [b |-> rest.b, n |-> 1 + rest.n]

BuildPutArgStkRefs(b0, argNode) ==
    LET r == IF argNode.srcType = "TYP_STRUCT"
             THEN IF argNode.srcOper = "GT_FIELD_LIST"
                  THEN PutArgStkFieldUses(b0, argNode.fields, 1)
                  ELSE LET b1 == buildInternalIntRegisterDefForNode(b0, RBM_NONE, "copy")
                           b2 == IF target = "ARM64"
                                 THEN buildInternalIntRegisterDefForNode(b1, RBM_NONE, "copy")
                                 ELSE b1
                       IN  IF argNode.srcOper = "GT_BLK"
                           THEN BuildOperandUses(b2, argNode.addr, RBM_NONE, "addr")
                           ELSE [b |-> b2, n |-> 0]
             ELSE LET u == BuildOperandUses(b0, RegOperand, RBM_NONE, "src")
                  IN  IF target = "ARM64" /\ argNode.appleSimd12
                      THEN [b |-> buildInternalIntRegisterDefForNode(u.b, RBM_NONE, "simd12"), n |-> u.n]
                      ELSE u
    IN  [b |-> buildInternalRegisterUses(r.b), n |-> r.n]

StkFields == {Field("TYP_INT", FALSE, 1), Field("TYP_SIMD12", FALSE, 1)}

BlkAddrs == {RegOperand, LclAddrOperand, LclAddrRegOperand} \cup LeaOperands({8})

PutArgStkNodes ==
    {[srcType |-> "TYP_STRUCT", srcOper |-> "GT_FIELD_LIST", fields |-> fs,
      addr |-> NoOperand, appleSimd12 |-> FALSE] :
        fs \in SeqsUpTo(StkFields, MaxFields) \ {<<>>}}
    \cup {[srcType |-> "TYP_STRUCT", srcOper |-> "GT_BLK", fields |-> <<>>,
           addr |-> a, appleSimd12 |-> FALSE] : a \in BlkAddrs}
    \cup {[srcType |-> "TYP_STRUCT", srcOper |-> "GT_LCL_VAR", fields |-> <<>>,
           addr |-> NoOperand, appleSimd12 |-> FALSE]}
    \cup {[srcType |-> t, srcOper |-> "OTHER", fields |-> <<>>,
           addr |-> NoOperand, appleSimd12 |-> t = "TYP_SIMD12" /\ apple] :
            t \in {"TYP_INT", "TYP_SIMD12"}, apple \in BOOLEAN}

\* the stack arguments of the multi-builder specifications
PutArgStkNodesCore ==
    {n \in PutArgStkNodes : Len(n.fields) <= 1 /\ n.addr # LclAddrRegOperand}

-----------------------------------------------------------------------------
(* BuildPutArgSplit                                                        *)
(* A split argument is [argReg, gtNumRegs, srcOper, fields, addr].         *)

SplitArgMask(argNode) == {argNode.argReg + i : i \in 0 .. (argNode.gtNumRegs - 1)}

\* TARGET_ARM: a GT_MUL_LONG or GT_BITCAST producing a register pair
SplitCurrentRegCount(field) ==
    IF target = "ARM" /\ field.multiRegOp THEN field.regCount ELSE 1

\* mutant: a slot beyond the destination registers is marked placed as well
SplitFieldRegUse_MarkStackSlots(b, argNode, sourceRegCount) ==
    LET nextArgReg == argNode.argReg + sourceRegCount
    IN  IF sourceRegCount < argNode.gtNumRegs
        THEN [BuildUse(b, "field", genSingleTypeRegMask(nextArgReg)) EXCEPT !.placed = @ \cup {nextArgReg}]
        ELSE [BuildUse(b, "field", RBM_NONE) EXCEPT !.placed = @ \cup {nextArgReg}]

\* mutant: the bound is tested with <= and one slot too many is bound
SplitFieldRegUse_OffByOne(b, argNode, sourceRegCount) ==
    IF sourceRegCount <= argNode.gtNumRegs
    THEN LET nextArgReg == argNode.argReg + sourceRegCount
             b1 == BuildUse(b, "field", genSingleTypeRegMask(nextArgReg))
         IN  [b1 EXCEPT !.placed = @ \cup {nextArgReg}]
    ELSE BuildUse(b, "field", RBM_NONE)

\* the use of one register of one field; sourceRegCount counts from 0
SplitFieldRegUse(b, argNode, sourceRegCount) ==
    IF sourceRegCount < argNode.gtNumRegs
    THEN LET nextArgReg == argNode.argReg + sourceRegCount
             b1 == BuildUse(b, "field", genSingleTypeRegMask(nextArgReg))
         IN  [b1 EXCEPT !.placed = @ \cup {nextArgReg}]
    ELSE BuildUse(b, "field", RBM_NONE)

\* [b, n]: n is sourceRegCount after the loops
RECURSIVE SplitFieldUses(_, _, _, _, _)
SplitFieldUses(b, argNode, k, regIndex, sourceRegCount) ==
    IF k > Len(argNode.fields) THEN [b |-> b, n |-> sourceRegCount]
    ELSE IF regIndex >= SplitCurrentRegCount(argNode.fields[k])
    THEN SplitFieldUses(b, argNode, k + 1, 0, sourceRegCount)
    ELSE SplitFieldUses(SplitFieldRegUse(b, argNode, sourceRegCount), argNode, k,
                        regIndex + 1, sourceRegCount + 1)

BuildPutArgSplitRefs(b0, argNode) ==
    LET argMask == SplitArgMask(argNode)
        r == IF argNode.srcOper = "GT_FIELD_LIST"
             THEN SplitFieldUses(b0, argNode, 1, 0, 0)
             ELSE IF argNode.srcOper = "GT_BLK"
             THEN LET b1 == IF argNode.gtNumRegs = 1
                            THEN buildInternalIntRegisterDefForNode(b0, allRegsInt \ argMask, "copy")
                            ELSE b0
                  IN  BuildOperandUses(b1, argNode.addr, RBM_NONE, "addr")
             ELSE [b |-> b0, n |-> 0]
    IN  [b |-> BuildNodeDefs(buildInternalRegisterUses(r.b), argNode.gtNumRegs, argMask),
         n |-> r.n]

\* multi-register fields exist on TARGET_ARM only
SplitFields ==
    {Field("TYP_INT", FALSE, 1)} \cup
    (IF target = "ARM" THEN {Field("TYP_LONG", TRUE, 2)} ELSE {})

PutArgSplitNodes ==
    {[argReg |-> r, gtNumRegs |-> k, srcOper |-> "GT_FIELD_LIST", fields |-> fs, addr |-> NoOperand] :
        r \in 0 .. MaxArgRegBase, k \in 1 .. MaxNumRegs,
        fs \in SeqsUpTo(SplitFields, MaxFields) \ {<<>>}}
    \cup {[argReg |-> r, gtNumRegs |-> k, srcOper |-> "GT_BLK", fields |-> <<>>, addr |-> a] :
            r \in 0 .. MaxArgRegBase, k \in 1 .. MaxNumRegs, a \in {RegOperand, LclAddrOperand}}
    \cup {[argReg |-> r, gtNumRegs |-> k, srcOper |-> "GT_LCL_VAR", fields |-> <<>>, addr |-> NoOperand] :
            r \in 0 .. MaxArgRegBase, k \in 1 .. MaxNumRegs}

\* registers bound by the field-list uses among the emitted records
FieldBoundRegs(rs) ==
    UNION {rs[i].cands : i \in {j \in 1 .. Len(rs) : rs[j].kind = "Use" /\ rs[j].what = "field"}}

-----------------------------------------------------------------------------
(* BuildBlockStore                                                         *)
(* A block store is [isInit, kind, size, dstAddr, srcOper, srcAddrOrFill,  *)
(* baselineSimd]: srcOper is "GT_IND", "GT_LCL_VAR" or "GT_LCL_FLD" for a  *)
(* copy, "FILL" for an initialization, and                                 *)
(* srcAddrOrFill is NoOperand when the code leaves it null.                *)

isPow2(x) == x \in {1, 2, 4, 8, 16, 32, 64, 128}

getKillSetForBlockStore(blkNode) ==
    IF ~blkNode.isInit /\ blkNode.kind = "BlkOpKindCpObjUnroll" THEN RBM_CALLEE_TRASH ELSE RBM_NONE

BlkInitUnroll(b, blkNode) ==
    IF target = "ARM64"
    THEN LET b1 == IF blkNode.dstAddr.contained
                   THEN buildInternalIntRegisterDefForNode(b, RBM_NONE, "dstAddr") ELSE b
         IN  IF blkNode.size > FP_REGSIZE_BYTES
             THEN buildInternalFloatRegisterDefForNode(b1, internalFloatRegCandidates, "simd")
             ELSE b1
    ELSE b

BlkInitLoop(b, blkNode) == buildInternalIntRegisterDefForNode(b, availableIntRegs, "offsetReg")

CpObjInternalIntCandidates ==
    allRegsInt \ (RBM_WRITE_BARRIER_DST_BYREF \cup RBM_WRITE_BARRIER_SRC_BYREF)

BlkCpObjUnroll(b, blkNode) ==
    LET b1 == buildInternalIntRegisterDefForNode(b, CpObjInternalIntCandidates, "temp")
        b2 == IF blkNode.size >= 2 * REGSIZE_BYTES
              THEN buildInternalIntRegisterDefForNode(b1, CpObjInternalIntCandidates, "pair")
              ELSE b1
    IN  IF blkNode.size >= 4 * REGSIZE_BYTES /\ blkNode.baselineSimd
        THEN Repeat(b2, 2, TRUE, "simd")
        ELSE b2

\* mutant: the destination is pinned to the source register of the barrier
BlkDstAddrRegMask_Src(blkNode) ==
    IF ~blkNode.isInit /\ blkNode.kind = "BlkOpKindCpObjUnroll"
    THEN RBM_WRITE_BARRIER_SRC_BYREF ELSE RBM_NONE

\* the candidates of the destination address use
BlkDstAddrRegMask(blkNode) ==
    IF ~blkNode.isInit /\ blkNode.kind = "BlkOpKindCpObjUnroll"
    THEN RBM_WRITE_BARRIER_DST_BYREF ELSE RBM_NONE

\* the candidates of the source address use
BlkSrcRegMask(blkNode) ==
    IF ~blkNode.isInit /\ blkNode.kind = "BlkOpKindCpObjUnroll" /\ blkNode.srcAddrOrFill # NoOperand
    THEN RBM_WRITE_BARRIER_SRC_BYREF ELSE RBM_NONE

\* the source or destination of a copy is a local of the frame
BlkIsSrcAddrLocal(blkNode) ==
    \/ blkNode.srcOper \in {"GT_LCL_VAR", "GT_LCL_FLD"}
    \/ (blkNode.srcAddrOrFill # NoOperand /\ blkNode.srcAddrOrFill.oper = "GT_LCL_ADDR")

BlkIsDstAddrLocal(blkNode) == blkNode.dstAddr.oper = "GT_LCL_ADDR"

BlkCanUse16ByteWideInstrs(blkNode) == blkNode.size >= 2 * FP_REGSIZE_BYTES

BlkSrcAddrMayNeedReg(blkNode) ==
    BlkIsSrcAddrLocal(blkNode)
    \/ (blkNode.srcAddrOrFill # NoOperand /\ blkNode.srcAddrOrFill.contained)

BlkDstAddrMayNeedReg(blkNode) == BlkIsDstAddrLocal(blkNode) \/ blkNode.dstAddr.contained

\* mutant: one address that may need a register is enough
BlkCopyAddrNeedsReg_Either(blkNode) ==
    BlkSrcAddrMayNeedReg(blkNode) \/ BlkDstAddrMayNeedReg(blkNode)

\* the copy gets a register for an address no load or store can encode
BlkCopyAddrNeedsReg(blkNode) ==
    BlkSrcAddrMayNeedReg(blkNode) /\ BlkDstAddrMayNeedReg(blkNode)

BlkCopyUnroll(b, blkNode) ==
    LET b1 == buildInternalIntRegisterDefForNode(b, RBM_NONE, "temp")
    IN  IF target = "ARM64"
        THEN LET canUseLoadStorePairIntRegsInstrs == blkNode.size >= 2 * REGSIZE_BYTES
                 b2 == IF canUseLoadStorePairIntRegsInstrs
                       THEN buildInternalIntRegisterDefForNode(b1, RBM_NONE, "pair") ELSE b1
                 b3 == IF BlkCanUse16ByteWideInstrs(blkNode)
                       THEN Repeat(b2, 2, TRUE, "simd") ELSE b2
             IN  IF BlkCopyAddrNeedsReg(blkNode)
                 THEN buildInternalIntRegisterDefForNode(b3, RBM_NONE, "addr") ELSE b3
        ELSE b1

\* mutant: the remainder of the size is forgotten
MemmoveSimdRegs_NoRemainder(size) ==
    IF size >= FP_REGSIZE_BYTES THEN size \div FP_REGSIZE_BYTES ELSE 0

\* the number of SIMD registers and of general registers of an unrolled memmove
MemmoveSimdRegs(size) ==
    IF size >= FP_REGSIZE_BYTES
    THEN (size \div FP_REGSIZE_BYTES) + (IF size % FP_REGSIZE_BYTES # 0 THEN 1 ELSE 0)
    ELSE 0

MemmoveIntRegs(size) ==
    IF size >= FP_REGSIZE_BYTES THEN 0 ELSE IF isPow2(size) THEN 1 ELSE 2

RECURSIVE RepeatInt(_, _, _, _)
RepeatInt(b, n, cands, why) ==
    IF n = 0 THEN b
    ELSE RepeatInt(buildInternalIntRegisterDefForNode(b, cands, why), n - 1, cands, why)

\* mutant: the 32-bit target lets the memmove through with no register
BlkUnrollMemmove_NoAbort(b, blkNode) ==
    IF target = "ARM64"
    THEN RepeatInt(Repeat(b, MemmoveSimdRegs(blkNode.size), TRUE, "simd"),
                   MemmoveIntRegs(blkNode.size), availableIntRegs, "gpr")
    ELSE b

BlkUnrollMemmove(b, blkNode) ==
    IF target = "ARM64"
    THEN RepeatInt(Repeat(b, MemmoveSimdRegs(blkNode.size), TRUE, "simd"),
                   MemmoveIntRegs(blkNode.size), availableIntRegs, "gpr")
    ELSE Unreached(b)

BlkStrategy(b, blkNode) ==
    IF blkNode.isInit
    THEN CASE blkNode.kind = "BlkOpKindUnroll" -> BlkInitUnroll(b, blkNode)
           [] blkNode.kind = "BlkOpKindLoop" -> BlkInitLoop(b, blkNode)
           [] OTHER -> Unreached(b)
    ELSE CASE blkNode.kind = "BlkOpKindCpObjUnroll" -> BlkCpObjUnroll(b, blkNode)
           [] blkNode.kind = "BlkOpKindUnroll" -> BlkCopyUnroll(b, blkNode)
           [] blkNode.kind = "BlkOpKindUnrollMemmove" -> BlkUnrollMemmove(b, blkNode)
           [] OTHER -> Unreached(b)

\* the use of the destination address: [b, n]
BlkDstAddrUse(b, blkNode) ==
    IF ~blkNode.dstAddr.contained
    THEN [b |-> BuildUse(b, "dstAddr", BlkDstAddrRegMask(blkNode)), n |-> 1]
    ELSE IF blkNode.dstAddr.oper = "GT_LEA"
    THEN BuildAddrUses(b, RegOperand, RBM_NONE, "dstAddr.base")
    ELSE [b |-> b, n |-> 0]

\* the use of the source address or fill value: [b, n]
BlkSrcUse(b, blkNode) ==
    IF blkNode.srcAddrOrFill # NoOperand
    THEN IF ~blkNode.srcAddrOrFill.contained
         THEN [b |-> BuildUse(b, "srcAddrOrFill", BlkSrcRegMask(blkNode)), n |-> 1]
         ELSE IF blkNode.srcAddrOrFill.oper = "GT_LEA"
         THEN BuildAddrUses(b, RegOperand, RBM_NONE, "srcAddrOrFill.base")
         ELSE [b |-> b, n |-> 0]
    ELSE [b |-> b, n |-> 0]

\* mutant: the source is used before the destination
BuildBlockStoreRefs_SrcFirst(b0, blkNode) ==
    LET b1 == BlkStrategy(b0, blkNode)
    IN  IF b1.aborted THEN [b |-> b1, n |-> 0]
        ELSE LET s == BlkSrcUse(b1, blkNode)
                 d == BlkDstAddrUse(s.b, blkNode)
                 b2 == buildInternalRegisterUses(d.b)
             IN  [b |-> BuildKills(b2, getKillSetForBlockStore(blkNode)), n |-> d.n + s.n]

BuildBlockStoreRefs(b0, blkNode) ==
    LET b1 == BlkStrategy(b0, blkNode)
    IN  IF b1.aborted THEN [b |-> b1, n |-> 0]
        ELSE LET d == BlkDstAddrUse(b1, blkNode)
                 s == BlkSrcUse(d.b, blkNode)
                 b2 == buildInternalRegisterUses(s.b)
             IN  [b |-> BuildKills(b2, getKillSetForBlockStore(blkNode)), n |-> d.n + s.n]

BlkOpKinds == {"BlkOpKindInvalid", "BlkOpKindCpObjUnroll", "BlkOpKindLoop", "BlkOpKindUnroll",
               "BlkOpKindUnrollMemmove"}

BlkNode(isInit, kind, size, dstAddr, srcOper, srcAddrOrFill, baselineSimd) ==
    [isInit |-> isInit, kind |-> kind, size |-> size, dstAddr |-> dstAddr, srcOper |-> srcOper,
     srcAddrOrFill |-> srcAddrOrFill, baselineSimd |-> baselineSimd]

\* source shapes of a copy: srcOper and the address of a GT_IND
BlkCopySources ==
    {<<"GT_IND", a>> : a \in BlkAddrs}
    \cup {<<"GT_LCL_VAR", NoOperand>>, <<"GT_LCL_FLD", NoOperand>>}

BlockStoreNodes ==
    {BlkNode(TRUE, k, sz, d, "FILL", f, TRUE) :
        k \in BlkOpKinds, sz \in 1 .. MaxBlkSize, d \in BlkAddrs, f \in {RegOperand, CnsOperand}}
    \cup
    {BlkNode(FALSE, k, sz, d, s[1], s[2], simd) :
        k \in BlkOpKinds \ {"BlkOpKindCpObjUnroll"}, sz \in 1 .. MaxBlkSize, d \in BlkAddrs,
        s \in BlkCopySources, simd \in {TRUE}}
    \cup
    {BlkNode(FALSE, "BlkOpKindCpObjUnroll", sz, d, s[1], s[2], simd) :
        sz \in 1 .. MaxBlkSize, d \in BlkAddrs,
        s \in {<<"GT_IND", RegOperand>>, <<"GT_LCL_VAR", NoOperand>>,
               <<"GT_LCL_FLD", NoOperand>>},
        simd \in BOOLEAN}

\* the block stores of the multi-builder specification
BlockStoreNodesCore ==
    {n \in BlockStoreNodes :
        /\ n.size = MaxBlkSize
        /\ n.dstAddr = RegOperand
        /\ n.srcAddrOrFill \in {RegOperand, NoOperand}
        /\ n.srcOper # "GT_LCL_FLD"
        /\ n.baselineSimd}

-----------------------------------------------------------------------------
(* BuildCast and BuildSelect                                               *)
(* A cast is [srcType, castType, src]; a select is [oper, cond, op1, op2]. *)

varTypeIsFloating(t) == t \in {"TYP_FLOAT", "TYP_DOUBLE"}

BuildCastUses(b, cast, cands) ==
    IF cast.src.contained THEN BuildOperandUses(b, cast.src, cands, "src")
    ELSE [b |-> BuildUse(b, "src", cands), n |-> 1]

BuildCastRefs(b0, cast) ==
    LET b1 == IF target = "ARM" /\ varTypeIsFloating(cast.srcType) /\ ~varTypeIsFloating(cast.castType)
              THEN [buildInternalFloatRegisterDefForNode(b0, RBM_ALLFLOAT, "convert")
                        EXCEPT !.delayFree = TRUE]
              ELSE b0
        u == BuildCastUses(b1, cast, RBM_NONE)
    IN  [b |-> BuildDef(buildInternalRegisterUses(u.b), RBM_NONE), n |-> u.n]

\* TARGET_ARM: a long source is a contained GT_LONG
CastNodes ==
    {[srcType |-> st, castType |-> ct,
      src |-> IF target = "ARM" /\ st = "TYP_LONG" THEN LongOperand ELSE RegOperand] :
        st \in {"TYP_INT", "TYP_LONG", "TYP_DOUBLE"}, ct \in {"TYP_INT", "TYP_DOUBLE"}}

BuildSelectRefs(b0, select) ==
    LET c == IF select.oper = "GT_SELECT"
             THEN BuildOperandUses(b0, select.cond, RBM_NONE, "cond")
             ELSE [b |-> b0, n |-> 0]
        u1 == BuildOperandUses(c.b, select.op1, RBM_NONE, "op1")
        u2 == BuildOperandUses(u1.b, select.op2, RBM_NONE, "op2")
    IN  [b |-> BuildDef(u2.b, RBM_NONE), n |-> c.n + u1.n + u2.n]

SelectNodes ==
    {[oper |-> "GT_SELECT", cond |-> RegOperand, op1 |-> a, op2 |-> c] :
        a \in {RegOperand, CnsOperand}, c \in {RegOperand, CnsOperand}}
    \cup {[oper |-> "GT_SELECTCC", cond |-> NoOperand, op1 |-> a, op2 |-> c] :
            a \in {RegOperand, CnsOperand}, c \in {RegOperand, CnsOperand}}

-----------------------------------------------------------------------------
(* BuildPutArgReg, the builder of lsrabuild.cpp that records placements.   *)
(* A register argument is [argReg, passThroughLocal].                      *)

BuildPutArgRegRefs(b0, argNode) ==
    LET b1 == BuildUse(b0, "op1", genSingleTypeRegMask(argNode.argReg))
        b2 == [b1 EXCEPT !.placed = @ \cup {argNode.argReg}]
        b3 == IF argNode.passThroughLocal THEN [b2 EXCEPT !.locals = @ + 1] ELSE b2
    IN  [b |-> BuildDef(b3, genSingleTypeRegMask(argNode.argReg)), n |-> 1]

PutArgRegNodes ==
    {[argReg |-> r, passThroughLocal |-> p] : r \in 0 .. MaxArgRegBase, p \in BOOLEAN}

-----------------------------------------------------------------------------
(* Actions.                                                                *)

\* the state a builder leaves behind
Finish(name, n, r, bound) ==
    /\ op' = name
    /\ node' = n
    /\ refs' = r.b.refs
    /\ srcCount' = r.n
    /\ placedArgRegs' = r.b.placed
    /\ numPlacedArgLocals' = r.b.locals
    /\ aborted' = r.b.aborted
    /\ boundSinceCall' = bound
    /\ clearedRegs' = placedArgRegs \ r.b.placed
    /\ clearedLocals' = IF r.b.locals < numPlacedArgLocals
                        THEN numPlacedArgLocals - r.b.locals ELSE 0
    /\ UNCHANGED target

BuildIndirOf(n) == Finish("BuildIndir", n, BuildIndirRefs(NewBuild, n), boundSinceCall)

BuildCallOf(n) == Finish("BuildCall", n, BuildCallRefs(NewBuild, n), {})

BuildPutArgStkOf(n) == Finish("BuildPutArgStk", n, BuildPutArgStkRefs(NewBuild, n), boundSinceCall)

BuildPutArgSplitOf(n) ==
    LET r == BuildPutArgSplitRefs(NewBuild, n)
    IN  Finish("BuildPutArgSplit", n, r, boundSinceCall \cup FieldBoundRegs(r.b.refs))

BuildBlockStoreOf(n) == Finish("BuildBlockStore", n, BuildBlockStoreRefs(NewBuild, n), boundSinceCall)

BuildCastOf(n) == Finish("BuildCast", n, BuildCastRefs(NewBuild, n), boundSinceCall)

BuildSelectOf(n) == Finish("BuildSelect", n, BuildSelectRefs(NewBuild, n), boundSinceCall)

BuildPutArgRegOf(n) == Finish("BuildPutArgReg", n, BuildPutArgRegRefs(NewBuild, n), boundSinceCall)

BuildIndir == ~aborted /\ \E n \in IndirNodesCore : BuildIndirOf(n)

BuildCall == ~aborted /\ \E n \in CallNodesCore : BuildCallOf(n)

BuildPutArgStk == ~aborted /\ \E n \in PutArgStkNodesCore : BuildPutArgStkOf(n)

BuildPutArgSplit == ~aborted /\ \E n \in PutArgSplitNodes : BuildPutArgSplitOf(n)

BuildBlockStore == ~aborted /\ \E n \in BlockStoreNodesCore : BuildBlockStoreOf(n)

BuildCast == ~aborted /\ \E n \in CastNodes : BuildCastOf(n)

BuildSelect == ~aborted /\ \E n \in SelectNodes : BuildSelectOf(n)

BuildPutArgReg ==
    /\ ~aborted
    /\ \E n \in PutArgRegNodes :
        /\ n.passThroughLocal => numPlacedArgLocals < MaxLocals
        /\ BuildPutArgRegOf(n)

NoNode == [oper |-> "NONE"]

Init ==
    /\ target \in Targets
    /\ placedArgRegs = RBM_NONE
    /\ numPlacedArgLocals = 0
    /\ op = ""
    /\ node = NoNode
    /\ refs = <<>>
    /\ srcCount = 0
    /\ aborted = FALSE
    /\ boundSinceCall = {}
    /\ clearedRegs = {}
    /\ clearedLocals = 0

\* the builders of lsraarmarch.cpp, on any sequence of nodes
Next ==
    \/ BuildIndir
    \/ BuildCall
    \/ BuildPutArgStk
    \/ BuildPutArgSplit
    \/ BuildBlockStore
    \/ BuildCast
    \/ BuildSelect

Spec == Init /\ [][Next]_vars

\* the stack and register arguments of calls and the calls: BuildPutArgReg
\* places registers and pass-through locals
NextPlaced ==
    \/ BuildPutArgReg
    \/ BuildPutArgStk
    \/ BuildCall

SpecPlaced == Init /\ [][NextPlaced]_vars

\* a call of any shape built when the arguments before it have left nothing
\* placed, every argument register placed, or every argument register and
\* the locals placed: <<placedArgRegs, numPlacedArgLocals>> as BuildPutArgReg
\* leaves them in SpecPlaced, where a placed local comes with its register
PlacedArgStates ==
    {<<RBM_NONE, 0>>, <<0 .. MaxArgRegBase, 0>>, <<0 .. MaxArgRegBase, MaxLocals>>}

InitPlaced ==
    /\ target \in Targets
    /\ \E st \in PlacedArgStates : placedArgRegs = st[1] /\ numPlacedArgLocals = st[2]
    /\ op = ""
    /\ node = NoNode
    /\ refs = <<>>
    /\ srcCount = 0
    /\ aborted = FALSE
    /\ boundSinceCall = {}
    /\ clearedRegs = {}
    /\ clearedLocals = 0

BuildCallPlaced == op = "" /\ \E n \in CallNodes : BuildCallOf(n)

NextCall == BuildCallPlaced

SpecCall == InitPlaced /\ [][NextCall]_vars

\* the first node of a compilation: one builder applied to any shape of its node
FirstIndir == op = "" /\ \E n \in IndirNodes : BuildIndirOf(n)

FirstCall == op = "" /\ \E n \in CallNodes : BuildCallOf(n)

FirstPutArgStk == op = "" /\ \E n \in PutArgStkNodes : BuildPutArgStkOf(n)

FirstPutArgSplit == op = "" /\ \E n \in PutArgSplitNodes : BuildPutArgSplitOf(n)

FirstBlockStore == op = "" /\ \E n \in BlockStoreNodes : BuildBlockStoreOf(n)

FirstCast == op = "" /\ \E n \in CastNodes : BuildCastOf(n)

FirstSelect == op = "" /\ \E n \in SelectNodes : BuildSelectOf(n)

NextFirst ==
    \/ FirstIndir
    \/ FirstCall
    \/ FirstPutArgStk
    \/ FirstPutArgSplit
    \/ FirstBlockStore
    \/ FirstCast
    \/ FirstSelect

SpecFirst == Init /\ [][NextFirst]_vars

-----------------------------------------------------------------------------
(* Views of the emitted records.                                           *)

IndicesOf(kinds) == {i \in 1 .. Len(refs) : refs[i].kind \in kinds}

NumRefs(kinds) == Cardinality(IndicesOf(kinds))

UseKinds == {"Use"}
InternalUseKinds == {"InternalUse", "InternalUseDelayFree"}

Built(name) == op = name /\ ~aborted

-----------------------------------------------------------------------------
(* Claims.                                                                 *)

\* C1: after BuildCall returns, placedArgRegs is the empty register set and
\* numPlacedArgLocals is 0, whatever the call's shape and whatever the
\* placement state held before the call.
C1_PlacementEmptyAfterCall ==
    op = "BuildCall" => (placedArgRegs = RBM_NONE /\ numPlacedArgLocals = 0)

\* a direct call without a call-target expression that returns a value in
\* one register and found both placed registers and placed locals
C1_Witness ==
    /\ op = "BuildCall" /\ node.retType = "TYP_INT" /\ ~node.fastTail
    /\ node.callType = "CT_USER_FUNC" /\ ~node.hasControlExpr
    /\ Len(node.args) > 0 /\ node.needsNullCheck /\ node.isAsync
    /\ clearedRegs = 0 .. MaxArgRegBase /\ clearedLocals = MaxLocals
    /\ placedArgRegs = RBM_NONE /\ numPlacedArgLocals = 0

\* C2: in every sequence of the builders of this file from an empty placement
\* state, the placed registers are exactly the registers bound by field-list
\* uses of the BuildPutArgSplit invocations since the last BuildCall completed.
C2_PlacedIsBoundSinceCall == placedArgRegs = boundSinceCall

\* placements of two split arguments survive an unrelated builder
C2_Witness ==
    /\ op = "BuildBlockStore"
    /\ Cardinality(placedArgRegs) >= 3
    /\ placedArgRegs = boundSinceCall

\* C3: the source count a builder returns is the number of operand use
\* records it emitted; internal, fixed-register, kill and definition records
\* are not counted.
C3_SrcCountIsUses == (op # "" /\ ~aborted) => srcCount = NumRefs(UseKinds)

\* a split argument whose multi-register field yields three uses, one of
\* them beyond the destination registers, next to definitions
C3_Witness ==
    /\ Built("BuildPutArgSplit") /\ srcCount = 3 /\ node.gtNumRegs = 2
    /\ NumRefs({"Def"}) = 2 /\ NumRefs(UseKinds) = 3

\* C4: the scratch integer registers BuildIndir reserves for the shape of the
\* address: 1 for a contained addressing expression with an index and a
\* nonzero offset, 1 for one whose offset is not encodable for the access
\* size, 0 with only an index, only an encodable offset or neither, 0 when
\* the address is not contained, and never more than 1.
AddrScratch == Cardinality({i \in IndicesOf({"InternalDef"}) : refs[i].what = "addrMode"})

AddrEncodable == emitIns_valid_imm_for_ldst_offset(node.addr.offset, emitTypeSize(node.type))

ContainedLea == node.addr.contained /\ node.addr.oper = "GT_LEA"

C4_IndirAddrScratch ==
    Built("BuildIndir") =>
        /\ AddrScratch <= 1
        /\ (ContainedLea /\ node.addr.hasIndex /\ node.addr.offset # 0) => AddrScratch = 1
        /\ (ContainedLea /\ ~AddrEncodable) => AddrScratch = 1
        /\ (ContainedLea /\ AddrEncodable /\ (~node.addr.hasIndex \/ node.addr.offset = 0))
              => AddrScratch = 0
        /\ ~node.addr.contained => AddrScratch = 0
        /\ (ContainedLea /\ node.addr.hasIndex /\ node.addr.offset = 0) => AddrScratch = 0
        /\ (ContainedLea /\ node.addr.hasIndex /\ node.addr.offset = 4) => AddrScratch = 1

\* an index together with an offset no load/store immediate holds: both
\* conditions at once, one register
C4_Witness ==
    /\ Built("BuildIndir") /\ ContainedLea /\ node.addr.hasIndex
    /\ node.addr.offset = 4096 /\ ~AddrEncodable
    /\ AddrScratch = 1

\* C5 as claimed: with the unrolled object-copy strategy every use emitted for
\* the destination address, the base of a contained addressing expression
\* included, has the write-barrier destination register as its only
\* candidate, and every source address use the write-barrier source register.
IsCpObj == Built("BuildBlockStore") /\ ~node.isInit /\ node.kind = "BlkOpKindCpObjUnroll"

UsesOf(whats) == {i \in IndicesOf(UseKinds) : refs[i].what \in whats}

C5_Original ==
    IsCpObj =>
        /\ \A i \in UsesOf({"dstAddr", "dstAddr.base"}) : refs[i].cands = RBM_WRITE_BARRIER_DST_BYREF
        /\ \A i \in UsesOf({"srcAddrOrFill"}) : refs[i].cands = RBM_WRITE_BARRIER_SRC_BYREF

\* C5 as amended: a destination address that is not contained is used with
\* the write-barrier destination register as its only candidate, and a source
\* address use has the write-barrier source register as its only candidate;
\* the base of a contained destination addressing expression is used with no
\* candidate restriction.
C5_CpObjAddressCandidates ==
    IsCpObj =>
        /\ ~node.dstAddr.contained =>
              (/\ Cardinality(UsesOf({"dstAddr"})) = 1
               /\ \A i \in UsesOf({"dstAddr"}) : refs[i].cands = RBM_WRITE_BARRIER_DST_BYREF)
        /\ (node.dstAddr.contained /\ node.dstAddr.oper = "GT_LEA") =>
              (/\ UsesOf({"dstAddr"}) = {}
               /\ Cardinality(UsesOf({"dstAddr.base"})) = 1
               /\ \A i \in UsesOf({"dstAddr.base"}) : refs[i].cands = RBM_NONE)
        /\ (node.srcOper = "GT_IND") = (UsesOf({"srcAddrOrFill"}) # {})
        /\ \A i \in UsesOf({"srcAddrOrFill"}) : refs[i].cands = RBM_WRITE_BARRIER_SRC_BYREF

\* an object copy from a non-local source through a destination in a register
C5_Witness ==
    /\ IsCpObj /\ ~node.dstAddr.contained /\ node.srcOper = "GT_IND"
    /\ srcCount = 2
    /\ \E i \in UsesOf({"dstAddr"}) : refs[i].cands = RBM_WRITE_BARRIER_DST_BYREF
    /\ \E i \in UsesOf({"srcAddrOrFill"}) : refs[i].cands = RBM_WRITE_BARRIER_SRC_BYREF

\* C6: the unrolled memmove on the 64-bit target, vector width 16: a size of
\* at least 16 reserves ceil(size/16) vector registers and no integer
\* register; a smaller power of two 1 integer register; any other smaller
\* size 2 integer registers.
InternalDefsIn(regs) ==
    Cardinality({i \in IndicesOf({"InternalDef"}) : refs[i].cands \subseteq regs})

IsMemmove64 ==
    /\ Built("BuildBlockStore") /\ ~node.isInit /\ node.kind = "BlkOpKindUnrollMemmove"
    /\ target = "ARM64"

C6_MemmoveScratch ==
    IsMemmove64 =>
        LET v == InternalDefsIn(RBM_ALLFLOAT)
            g == InternalDefsIn(RBM_ALLINT)
        IN  /\ node.size >= 16 => (g = 0 /\ 16 * (v - 1) < node.size /\ node.size <= 16 * v)
            /\ (node.size < 16 /\ node.size \in {1, 2, 4, 8}) => (g = 1 /\ v = 0)
            /\ (node.size < 16 /\ node.size \notin {1, 2, 4, 8}) => (g = 2 /\ v = 0)
            /\ node.size = 16 => v = 1
            /\ node.size = 3 => g = 2
            /\ node.size = 8 => g = 1

\* two vector widths and one byte: three vector registers
C6_Witness ==
    /\ IsMemmove64 /\ node.size = 33
    /\ InternalDefsIn(RBM_ALLFLOAT) = 3 /\ InternalDefsIn(RBM_ALLINT) = 0

\* C7: BuildPutArgSplit on a field list, the sub-register slots numbered from 0
\* in list order: the use of slot k < gtNumRegs has the register argReg + k as
\* its only candidate and that register joins the placed registers; the use
\* of a slot k >= gtNumRegs has no candidate restriction and places nothing.
RECURSIVE SlotsOf(_, _)
SlotsOf(fields, k) ==
    IF k > Len(fields) THEN 0
    ELSE (IF fields[k].multiRegOp THEN fields[k].regCount ELSE 1) + SlotsOf(fields, k + 1)

Min(a, b) == IF a < b THEN a ELSE b

C7_SplitFieldSlots ==
    [][(op' = "BuildPutArgSplit" /\ node'.srcOper = "GT_FIELD_LIST") =>
        LET slots == SlotsOf(node'.fields, 1)
            bound == Min(slots, node'.gtNumRegs)
        IN  /\ srcCount' = slots
            /\ \A k \in 0 .. (slots - 1) :
                  /\ refs'[k + 1].kind = "Use"
                  /\ refs'[k + 1].cands =
                        IF k < node'.gtNumRegs THEN {node'.argReg + k} ELSE RBM_NONE
            /\ \A i \in (slots + 1) .. Len(refs') : refs'[i].kind # "Use"
            /\ placedArgRegs' =
                  placedArgRegs \cup {node'.argReg + k : k \in 0 .. (bound - 1)}
      ]_vars

\* one slot more than destination registers, built when other registers were
\* placed already: exactly one use is unrestricted
C7_Witness ==
    /\ Built("BuildPutArgSplit") /\ node.srcOper = "GT_FIELD_LIST"
    /\ SlotsOf(node.fields, 1) = node.gtNumRegs + 1
    /\ Cardinality({i \in IndicesOf(UseKinds) : refs[i].cands = RBM_NONE}) = 1
    /\ Cardinality(placedArgRegs) > node.gtNumRegs

\* C8: the use of a call's target expression: for a fast tail call its
\* candidates are a non-empty set of caller-trashed integer registers without
\* the link register and, with the stack cookie, without either cookie
\* temporary; for any other call it has no candidate restriction, the TLS
\* sequence of native AOT aside.
IsCallWithCtrlExpr ==
    Built("BuildCall") /\ (node.hasControlExpr \/ node.callType = "CT_INDIRECT")

C8_CtrlExprCandidates ==
    IsCallWithCtrlExpr =>
        /\ Cardinality(UsesOf({"ctrlExpr"})) = 1
        /\ \A i \in UsesOf({"ctrlExpr"}) :
              /\ node.fastTail =>
                    /\ refs[i].cands # {}
                    /\ refs[i].cands \subseteq RBM_INT_CALLEE_TRASH
                    /\ REG_LR \notin refs[i].cands
                    /\ node.gsCookie =>
                          (/\ REG_GSCOOKIE_TMP_0 \notin refs[i].cands
                           /\ REG_GSCOOKIE_TMP_1 \notin refs[i].cands)
              /\ (~node.fastTail /\ ~CallIsTlsGetAddr(node)) => refs[i].cands = RBM_NONE

\* a void fast tail call under the stack cookie: the kill set alone follows
C8_Witness ==
    /\ IsCallWithCtrlExpr /\ node.fastTail /\ node.gsCookie /\ node.retType = "TYP_VOID"
    /\ \E i \in UsesOf({"ctrlExpr"}) :
          refs[i].cands # {} /\ REG_GSCOOKIE_TMP_0 \notin refs[i].cands
    /\ NumRefs({"Def"}) = 0 /\ NumRefs({"Kill"}) = 1

\* C9: BuildCall emits as many definitions as the return descriptor has
\* registers for a multi-register value, 1 for any other value, 0 for void;
\* the kill set is emitted once, alone when there is no definition and
\* otherwise directly followed by the definitions.
ExpectedCallDefs ==
    IF node.retType = "TYP_VOID" THEN 0
    ELSE IF node.retType = "TYP_STRUCT" THEN node.retRegCount
    ELSE IF node.retType = "TYP_LONG" /\ target = "ARM" THEN 2
    ELSE 1

C9_CallDefsAndKill ==
    Built("BuildCall") =>
        /\ NumRefs({"Def"}) = ExpectedCallDefs
        /\ NumRefs({"Kill"}) = 1
        /\ \A k \in IndicesOf({"Kill"}) :
              IndicesOf({"Def"}) = (k + 1) .. (k + ExpectedCallDefs)

\* a value returned in three registers
C9_Witness ==
    /\ Built("BuildCall") /\ node.retType = "TYP_STRUCT" /\ node.retRegCount = 3
    /\ NumRefs({"Def"}) = 3 /\ NumRefs({"Kill"}) = 1

\* C10: the records of one BuildCall come in the order argument uses, the use
\* of the control expression, the uses of the reserved internal registers,
\* the kill set with the definitions: no operand use after an internal use,
\* no kill or definition before the last use.
C10_CallRecordOrder ==
    Built("BuildCall") =>
        /\ NumRefs(InternalUseKinds) = NumRefs({"InternalDef"})
        /\ \A i, j \in 1 .. Len(refs) :
              i < j =>
                /\ ~(refs[i].what = "ctrlExpr" /\ refs[j].kind = "Use" /\ refs[j].what = "arg")
                /\ ~(refs[i].kind \in InternalUseKinds /\ refs[j].kind = "Use")
                /\ ~(refs[i].kind \in {"Kill", "Def"}
                     /\ refs[j].kind \in UseKinds \cup InternalUseKinds)

\* arguments, a control expression, an internal register and a definition
C10_Witness ==
    /\ Built("BuildCall") /\ Len(node.args) > 0
    /\ UsesOf({"arg"}) # {} /\ UsesOf({"ctrlExpr"}) # {}
    /\ NumRefs(InternalUseKinds) > 0 /\ NumRefs({"Def"}) > 0


\* C11 as claimed: the unrolled copy on the 64-bit target reserves two vector
\* registers exactly when the size is at least two vector widths and both
\* addresses are simple, that is based on the frame; at such a size with an
\* address that is not simple it reserves no vector register.
IsCopyUnroll64 ==
    /\ Built("BuildBlockStore") /\ ~node.isInit /\ node.kind = "BlkOpKindUnroll"
    /\ target = "ARM64"

BothAddrsSimple == BlkIsSrcAddrLocal(node) /\ BlkIsDstAddrLocal(node)

C11_Original ==
    IsCopyUnroll64 =>
        LET v == InternalDefsIn(RBM_ALLFLOAT)
        IN  /\ (v = 2) = (node.size >= 2 * FP_REGSIZE_BYTES /\ BothAddrsSimple)
            /\ (node.size >= 2 * FP_REGSIZE_BYTES /\ ~BothAddrsSimple) => v = 0

\* C12 as claimed: the unrolled copy on the 64-bit target reserves one
\* integer register, a second exactly when the size is at least two machine
\* words, and one more exactly when neither the source nor the destination
\* is a local of the frame.
IntDefsFor(whys) ==
    Cardinality({i \in IndicesOf({"InternalDef"}) :
                    refs[i].what \in whys /\ refs[i].cands \subseteq RBM_ALLINT})

C12_Original ==
    IsCopyUnroll64 =>
        /\ IntDefsFor({"temp"}) = 1
        /\ IntDefsFor({"pair"}) = (IF node.size >= 2 * REGSIZE_BYTES THEN 1 ELSE 0)
        /\ IntDefsFor({"addr"}) =
              (IF ~BlkIsSrcAddrLocal(node) /\ ~BlkIsDstAddrLocal(node) THEN 1 ELSE 0)

\* C12 as amended: one integer register always, a second exactly when the
\* size is at least two machine words, and one more exactly when the source
\* is a local variable or field or has an address that is a GT_LCL_ADDR or
\* is contained, and the destination address is a GT_LCL_ADDR or is
\* contained; none more when either address is a value in a register that
\* is not the address of a local.
SrcIsLocalOrContained ==
    \/ node.srcOper \in {"GT_LCL_VAR", "GT_LCL_FLD"}
    \/ (node.srcOper = "GT_IND"
        /\ (node.srcAddrOrFill.oper = "GT_LCL_ADDR" \/ node.srcAddrOrFill.contained))

DstIsLocalOrContained == node.dstAddr.oper = "GT_LCL_ADDR" \/ node.dstAddr.contained

C12_CopyUnrollIntScratch ==
    IsCopyUnroll64 =>
        /\ IntDefsFor({"temp"}) = 1
        /\ IntDefsFor({"pair"}) = (IF node.size >= 2 * REGSIZE_BYTES THEN 1 ELSE 0)
        /\ IntDefsFor({"addr"}) =
              (IF SrcIsLocalOrContained /\ DstIsLocalOrContained THEN 1 ELSE 0)
        /\ InternalDefsIn(RBM_ALLINT) = IntDefsFor({"temp", "pair", "addr"})
        /\ (node.dstAddr = RegOperand \/ node.srcAddrOrFill = RegOperand)
              => IntDefsFor({"addr"}) = 0

\* a copy of a local to a local of two machine words: three integer registers
C12_Witness ==
    /\ IsCopyUnroll64 /\ node.srcOper = "GT_LCL_VAR" /\ node.dstAddr = LclAddrRegOperand
    /\ node.size = 2 * REGSIZE_BYTES
    /\ InternalDefsIn(RBM_ALLINT) = 3


\* C13: a call without a call-target expression reserves on the 32-bit target
\* exactly one staging register in every case, and on the 64-bit target
\* exactly one, among the caller-trashed integer registers, when it is a fast
\* tail call through an indirection cell and none otherwise; a call with a
\* call-target expression reserves none.
StagingDefs == {i \in IndicesOf({"InternalDef"}) : refs[i].what = "target"}

C13_CallTargetStaging ==
    Built("BuildCall") =>
        /\ IsCallWithCtrlExpr => StagingDefs = {}
        /\ (~IsCallWithCtrlExpr /\ target = "ARM") => Cardinality(StagingDefs) = 1
        /\ (~IsCallWithCtrlExpr /\ target = "ARM64") =>
              IF node.r2rRelIndir /\ node.fastTail
              THEN /\ Cardinality(StagingDefs) = 1
                   /\ \A i \in StagingDefs :
                         refs[i].cands # {} /\ refs[i].cands \subseteq RBM_INT_CALLEE_TRASH
              ELSE StagingDefs = {}

\* a fast tail call through an indirection cell on the 64-bit target
C13_Witness ==
    /\ Built("BuildCall") /\ ~IsCallWithCtrlExpr /\ target = "ARM64"
    /\ node.r2rRelIndir /\ node.fastTail
    /\ \E i \in StagingDefs : refs[i].cands \subseteq RBM_INT_CALLEE_TRASH
    /\ NumRefs(InternalUseKinds) = 1

\* C14 as claimed: every async call built inside an async method, a fast tail
\* call included, has the async-continuation registers marked busy once,
\* after the internal register uses and before the kill and the definitions.
AsyncBusy == {i \in 1 .. Len(refs) : refs[i].kind = "Busy" /\ refs[i].what = "async"}

AsyncBusyPlaced ==
    /\ Cardinality(AsyncBusy) = 1
    /\ \A i \in AsyncBusy :
          /\ refs[i].cands = RBM_ASYNC_CONTINUATION_RET
          /\ \A j \in IndicesOf(InternalUseKinds \cup UseKinds) : j < i
          /\ \A j \in IndicesOf({"Kill", "Def"}) : i < j

C14_Original ==
    (Built("BuildCall") /\ node.isAsync /\ node.compIsAsync) => AsyncBusyPlaced

\* C14 as amended: an async call built inside an async method that is not a
\* fast tail call has the async-continuation registers marked busy once,
\* after the internal register uses and before the kill and the definitions;
\* for a fast tail call, as for any other call, nothing is marked.
C14_AsyncBusyUnlessTailCall ==
    Built("BuildCall") =>
        IF node.isAsync /\ node.compIsAsync /\ ~node.fastTail
        THEN AsyncBusyPlaced
        ELSE AsyncBusy = {}

\* an async call returning a value, with internal registers used before the
\* mark and the kill and the definition after it
C14_Witness ==
    /\ Built("BuildCall") /\ node.isAsync /\ node.compIsAsync /\ ~node.fastTail
    /\ node.retType = "TYP_INT"
    /\ NumRefs(InternalUseKinds) > 0 /\ NumRefs({"Def"}) = 1
    /\ AsyncBusyPlaced


\* C15: the records of one BuildIndir: the address uses, then the uses of
\* every reserved internal register, then at most one definition; the
\* definition is emitted exactly when the node is neither a GT_STOREIND nor a
\* GT_NULLCHECK, and it is the last record.
C15_IndirRecordOrder ==
    Built("BuildIndir") =>
        /\ NumRefs(InternalUseKinds) = NumRefs({"InternalDef"})
        /\ NumRefs({"Def"}) = (IF node.oper \in {"GT_STOREIND", "GT_NULLCHECK"} THEN 0 ELSE 1)
        /\ \A i \in IndicesOf({"Def"}) : i = Len(refs)
        /\ \A i \in IndicesOf(UseKinds) : \A j \in IndicesOf(InternalUseKinds) : i < j
        /\ \A i \in IndicesOf(UseKinds \cup InternalUseKinds) : \A j \in IndicesOf({"Def"}) : i < j

\* a load through base, index and offset: two uses, the use of the internal
\* register, the definition
C15_Witness ==
    /\ Built("BuildIndir") /\ node.oper = "GT_IND" /\ ContainedLea /\ node.addr.hasIndex
    /\ node.addr.offset = 4
    /\ srcCount = 2 /\ NumRefs(InternalUseKinds) = 1
    /\ refs[Len(refs)].kind = "Def"

\* C16: the records of every accepted block store end with the use of the
\* destination address (or of its base when it is a contained addressing
\* expression), the use of the source address or fill value if any (same
\* rule), the internal register uses, and the kill set, emitted once and
\* last; there is no definition and the use count is 0, 1 or 2.
IsBlockStore == Built("BuildBlockStore")

BlkTailOrder ==
    /\ NumRefs({"Def"}) = 0
    /\ srcCount \in {0, 1, 2}
    /\ NumRefs(InternalUseKinds) = NumRefs({"InternalDef"})
    /\ Cardinality(UsesOf({"dstAddr"})) = (IF ~node.dstAddr.contained THEN 1 ELSE 0)
    /\ Cardinality(UsesOf({"dstAddr.base"})) =
          (IF node.dstAddr.contained /\ node.dstAddr.oper = "GT_LEA" THEN 1 ELSE 0)
    /\ \A i \in IndicesOf({"InternalDef"}) : \A j \in IndicesOf(UseKinds) : i < j
    /\ \A i \in UsesOf({"dstAddr", "dstAddr.base"}) :
          \A j \in UsesOf({"srcAddrOrFill", "srcAddrOrFill.base"}) : i < j
    /\ \A i \in IndicesOf(UseKinds) : \A j \in IndicesOf(InternalUseKinds) : i < j

C16_BlockStoreTail ==
    IsBlockStore =>
        /\ BlkTailOrder
        /\ NumRefs({"Kill"}) = 1
        /\ refs[Len(refs)] =
              Ref("Kill", "node", IF IsCpObj THEN RBM_CALLEE_TRASH ELSE RBM_NONE)

\* an object copy between two addresses in registers: both uses, the uses of
\* the internal registers, the kill
C16_Witness ==
    /\ IsCpObj /\ srcCount = 2
    /\ NumRefs(InternalUseKinds) >= 2
    /\ refs[Len(refs)].kind = "Kill" /\ refs[Len(refs) - 1].kind \in InternalUseKinds

\* C17: a block store with a strategy the builder does not support for the
\* operation (an initialization that is neither unrolled nor a loop, a copy
\* that is none of object copy, unrolled and memmove, a memmove on the
\* 32-bit target) aborts the build with no record emitted for the node, and
\* no other block store aborts.
BlkUnsupported ==
    IF node.isInit
    THEN node.kind \notin {"BlkOpKindUnroll", "BlkOpKindLoop"}
    ELSE \/ node.kind \notin {"BlkOpKindCpObjUnroll", "BlkOpKindUnroll", "BlkOpKindUnrollMemmove"}
         \/ (node.kind = "BlkOpKindUnrollMemmove" /\ target = "ARM")

C17_UnsupportedAborts ==
    op = "BuildBlockStore" =>
        /\ aborted = BlkUnsupported
        /\ aborted => refs = <<>>

\* a memmove on the 32-bit target
C17_Witness ==
    /\ op = "BuildBlockStore" /\ ~node.isInit /\ node.kind = "BlkOpKindUnrollMemmove"
    /\ target = "ARM" /\ aborted /\ refs = <<>>

====
